---- MODULE Spec2Model ----
(***************************************************************************)
(* Model of deepxde/data/pde_operator.py: class PDEOperator.                *)
(*                                                                          *)
(* Python values are represented as follows.                                *)
(*   None                 the empty tuple  << >>                            *)
(*   an int option        << >>  or  <<n>>                                  *)
(*   a 2-D NumPy array    [ncol |-> c, rows |-> <<row_1, ..., row_r>>]      *)
(*                        (ncol is kept so that a zero-row array still has  *)
(*                        its column width, as np.empty((0, c)) has)        *)
(*   a triple (v, x, vx)  the tuple <<v, x, vx>>, so that Python's          *)
(*                        t[0], t[1], t[2] are t[1], t[2], t[3] here        *)
(* Python indices and row numbers are 0-based; TLA+ sequences are 1-based.  *)
(* CumSum, Slice and From take and return the 0-based Python numbers.       *)
(***************************************************************************)
EXTENDS Integers, Sequences, FiniteSets, TLC

VARIABLES
    pde_num_bcs,    \* self.pde.num_bcs : list of raw point counts, one per bc
    pde_pde,        \* self.pde.pde is not None
    num_func,       \* self.num_func
    num_test,       \* self.num_test : None or <<n>>
    func_vars,      \* self.func_vars : list of 0-based coordinate indices
    num_bcs,        \* self.num_bcs
    train_x_bc,     \* self.train_x_bc
    train_x,        \* self.train_x
    train_y,        \* self.train_y
    test_x,         \* self.test_x
    test_y,         \* self.test_y
    call            \* the most recent call on the object and its outcome

vars == <<pde_num_bcs, pde_pde, num_func, num_test, func_vars, num_bcs,
          train_x_bc, train_x, train_y, test_x, test_y, call>>

config == <<pde_num_bcs, pde_pde, num_func, num_test, func_vars, num_bcs>>

cache == <<train_x_bc, train_x, train_y, test_x, test_y>>

-----------------------------------------------------------------------------
(* Bounds of the model *)

MaxBcs == 2         \* at most this many boundary/initial conditions
MaxBcPts == 2       \* at most this many points per condition
MaxFunc == 2        \* num_function and num_test range over 1..MaxFunc
MaxFeat == 2        \* function handles are drawn from 1..MaxFeat
NumEvalPts == 2     \* P = len(evaluation_points)
NumTrainAll == 2    \* len(pde.train_x_all)
NumTestPts == 2     \* number of rows of pde.test_x beyond the bc offset
MaxComp == 2        \* a residual list has at most this many components
MaxGenPts == 2      \* gen_inputs is called directly with 0..MaxGenPts points

Dim == 2            \* self.pde.geom.dim

None == << >>

-----------------------------------------------------------------------------
(* NumPy / Python helpers *)

RECURSIVE SumSeq(_)
SumSeq(s) == IF s = << >> THEN 0 ELSE s[1] + SumSeq(Tail(s))

\* np.cumsum([0] + s): a list of Len(s) + 1 numbers; Python index i is [i + 1]
CumSum(s) == [k \in 1..(Len(s) + 1) |-> SumSeq(SubSeq(s, 1, k - 1))]

Min(a, b) == IF a < b THEN a ELSE b

\* s[beg:end] and s[beg:] on a Python list / on the rows of an array
Slice(s, beg, end) == SubSeq(s, beg + 1, Min(end, Len(s)))
From(s, beg) == SubSeq(s, beg + 1, Len(s))

ArrSlice(a, beg, end) == [ncol |-> a.ncol, rows |-> Slice(a.rows, beg, end)]
ArrFrom(a, beg) == [ncol |-> a.ncol, rows |-> From(a.rows, beg)]

NRows(a) == Len(a.rows)

\* np.repeat(a, m, axis=0): every row m consecutive times
Repeat(a, m) ==
    LET r == a.rows
    IN  [ncol |-> a.ncol,
         rows |-> [k \in 1..(Len(r) * m) |-> r[((k - 1) \div m) + 1]]]

\* np.tile(a, (n, 1)): the whole row sequence n times
Tile(a, n) ==
    LET r == a.rows
        len == Len(r)
    IN  [ncol |-> a.ncol,
         rows |-> [k \in 1..(len * n) |-> r[((k - 1) % len) + 1]]]

\* a[:, cols]: the listed (0-based) columns of every row
Columns(a, cols) ==
    LET r == a.rows
    IN  [ncol |-> Len(cols),
         rows |-> [m \in 1..Len(r) |-> [j \in 1..Len(cols) |-> r[m][cols[j] + 1]]]]

\* a.reshape(-1, 1) of an n x m array: row-major flattening, one scalar per row
Reshape1(a) ==
    LET r == a.rows
        w == a.ncol
    IN  [ncol |-> 1,
         rows |-> [k \in 1..(Len(r) * w) |->
                     << r[((k - 1) \div w) + 1][((k - 1) % w) + 1] >>]]

\* the rows of the arrays as[i], as[i + 1], ... one after the other
RECURSIVE ConcatRows(_, _)
ConcatRows(as, i) ==
    IF i > Len(as) THEN << >> ELSE as[i].rows \o ConcatRows(as, i + 1)

\* np.vstack(as) of a non-empty list of arrays of equal column width
VStack(as) == [ncol |-> as[1].ncol, rows |-> ConcatRows(as, 1)]

\* np.empty((0, c))
Empty(c) == [ncol |-> c, rows |-> << >>]

-----------------------------------------------------------------------------
(* Collaborators: the function space and the PDE problem *)

\* the value of the function with handle f at the coordinate vector q
RECURSIVE Weigh(_)
Weigh(q) == IF q = << >> THEN 0 ELSE q[1] + 10 * Weigh(Tail(q))

FuncValue(f, q) == 100 * f + Weigh(q)

\* func_space.random(n): the batches of n handles it can return, here two:
\* the handles 1..MaxFeat taken cyclically upwards, and taken downwards
Random(n) ==
    {[k \in 1..n |-> ((k - 1) % MaxFeat) + 1],
     [k \in 1..n |-> MaxFeat - ((k - 1) % MaxFeat)]}

\* func_space.eval_batch(func_feats, points): array of shape (N, M)
EvalBatch(func_feats, points) ==
    LET p == points.rows
    IN  [ncol |-> Len(p),
         rows |-> [n \in 1..Len(func_feats) |->
                     [m \in 1..Len(p) |-> FuncValue(func_feats[n], p[m])]]]

\* coordinate vectors of the problem; all distinct within and across the sets
Coord(tag, k) == [j \in 1..Dim |-> IF j = 1 THEN k ELSE tag + j]

eval_pts == [ncol |-> Dim, rows |-> [k \in 1..NumEvalPts |-> Coord(0, k)]]

pde_train_x_bc ==
    [ncol |-> Dim, rows |-> [k \in 1..SumSeq(pde_num_bcs) |-> Coord(1, k)]]

pde_train_x_all == [ncol |-> Dim, rows |-> [k \in 1..NumTrainAll |-> Coord(2, k)]]

\* pde.test_x : the bc points followed by the interior test points
pde_test_x ==
    [ncol |-> Dim,
     rows |-> pde_train_x_bc.rows \o [k \in 1..NumTestPts |-> Coord(3, k)]]

\* pde.bcs : one entry per condition, in declared order
pde_bcs == [i \in 1..Len(pde_num_bcs) |-> i - 1]

-----------------------------------------------------------------------------
(* PDEOperator.gen_inputs *)

gen_inputs_swapped(func_feats, func_vals, points) ==
    << Tile(func_vals, NRows(points)),
       Repeat(points, Len(func_feats)),
       Reshape1(EvalBatch(func_feats, Columns(points, func_vars))) >>

gen_inputs(func_feats, func_vals, points) ==
    << Repeat(func_vals, NRows(points)),
       Tile(points, Len(func_feats)),
       Reshape1(EvalBatch(func_feats, Columns(points, func_vars))) >>

-----------------------------------------------------------------------------
(* PDEOperator.bc_inputs: the value it returns and stores in self.train_x_bc *)

\* the three zero-row arrays of the case without conditions
bc_empty_wrong_width == << Empty(NumEvalPts), Empty(1), Empty(1) >>

bc_empty == << Empty(NumEvalPts), Empty(Dim), Empty(1) >>

\* the point slice of condition i (0-based) in pde.train_x_bc
bc_points_scaled(i) ==
    ArrSlice(pde_train_x_bc, CumSum(num_bcs)[i + 1], CumSum(num_bcs)[i + 2])

bc_points(i) ==
    ArrSlice(pde_train_x_bc, CumSum(pde_num_bcs)[i + 1], CumSum(pde_num_bcs)[i + 2])

\* the gen_inputs output of every condition, in the order of the loop
bc_blocks(func_feats, func_vals) ==
    [k \in 1..Len(pde_num_bcs) |-> gen_inputs(func_feats, func_vals, bc_points(k - 1))]

bc_inputs(func_feats, func_vals) ==
    IF pde_bcs = << >>
    THEN bc_empty
    ELSE LET b == bc_blocks(func_feats, func_vals)
         IN  << VStack([k \in 1..Len(b) |-> b[k][1]]),
                VStack([k \in 1..Len(b) |-> b[k][2]]),
                VStack([k \in 1..Len(b) |-> b[k][3]]) >>

\* the number of gen_inputs calls bc_inputs makes
bc_gen_calls == IF pde_bcs = << >> THEN 0 ELSE Len(pde_num_bcs)

-----------------------------------------------------------------------------
(* run_if_all_none: the wrapped method runs only if all the attributes are   *)
(* None; otherwise the wrapper returns the attributes                        *)

run_if_all_none(attrs) == \A k \in 1..Len(attrs) : attrs[k] = None

train_gate_wrong_slot == run_if_all_none(<<test_x, test_y>>)

train_gate == run_if_all_none(<<train_x, train_y>>)

test_gate == run_if_all_none(<<test_x, test_y>>)

\* what is recorded of a call: the method, its arguments, the value returned
\* (None if it raised), whether it raised, the number of function-sampler
\* invocations (random and eval_batch) it made, the number of gen_inputs calls
\* made from within bc_inputs, and whether the wrapper skipped the method
CallRec(op, args, ret, raised, sampler, bc_gen, skipped) ==
    [op |-> op, args |-> args, ret |-> ret, raised |-> raised,
     sampler |-> sampler, bc_gen |-> bc_gen, skipped |-> skipped]

-----------------------------------------------------------------------------
(* PDEOperator.train_next_batch *)

\* the triple a complete run stores in self.train_x
train_x_pde_first(func_feats) ==
    LET func_vals == EvalBatch(func_feats, eval_pts)
        bc == bc_inputs(func_feats, func_vals)
    IN  IF pde_pde
        THEN LET p == gen_inputs(func_feats, func_vals, pde_train_x_all)
             IN  << VStack(<<p[1], bc[1]>>), VStack(<<p[2], bc[2]>>),
                    VStack(<<p[3], bc[3]>>) >>
        ELSE bc

train_x_new(func_feats) ==
    LET func_vals == EvalBatch(func_feats, eval_pts)
        bc == bc_inputs(func_feats, func_vals)
    IN  IF pde_pde
        THEN LET p == gen_inputs(func_feats, func_vals, pde_train_x_all)
             IN  << VStack(<<bc[1], p[1]>>), VStack(<<bc[2], p[2]>>),
                    VStack(<<bc[3], p[3]>>) >>
        ELSE bc

\* The function sampler is invoked, in this order: random, eval_batch at the
\* evaluation points, eval_batch once per condition (gen_inputs in bc_inputs),
\* and eval_batch in the gen_inputs of the interior points if there is a PDE.
train_sampler_calls == 2 + bc_gen_calls + (IF pde_pde THEN 1 ELSE 0)

\* fail = 0: no invocation raises; fail = k > 0: the k-th invocation raises
\* (if random itself raises, there is no batch: func_feats is None).
\* bc_inputs has stored self.train_x_bc iff it ran to its end.
train_bc_stored_early(fail) == fail = 0 \/ fail > 2

train_bc_stored(fail) == fail = 0 \/ fail > 2 + bc_gen_calls

\* the wrapper returns the cached attributes without running the method
train_next_batch_skip(batch_size) ==
    /\ ~train_gate
    /\ UNCHANGED <<config, cache>>
    /\ call' = CallRec("train_next_batch", << >>,
                       <<train_x, train_y>>, FALSE, 0, 0, TRUE)

train_next_batch(batch_size, func_feats, fail) ==
    /\ train_gate
    /\ UNCHANGED config
    /\ train_x_bc' = IF train_bc_stored(fail)
                     THEN bc_inputs(func_feats, EvalBatch(func_feats, eval_pts))
                     ELSE train_x_bc
    /\ train_x' = IF fail = 0 THEN train_x_new(func_feats) ELSE train_x
    /\ train_y' = IF fail = 0 THEN None ELSE train_y
    /\ UNCHANGED <<test_x, test_y>>
    /\ call' = IF fail = 0
               THEN CallRec("train_next_batch", << >>,
                            <<train_x', train_y'>>, FALSE,
                            train_sampler_calls, bc_gen_calls, FALSE)
               ELSE CallRec("train_next_batch", << >>, None, TRUE,
                            fail,
                            IF fail <= 2 THEN 0 ELSE Min(fail - 2, bc_gen_calls),
                            FALSE)

-----------------------------------------------------------------------------
(* PDEOperator.test *)

test_alias_bc == train_x_bc

test_alias == train_x

\* the rows of the problem's test point set the interior test rows are made of
test_points_no_offset == pde_test_x

test_points == ArrFrom(pde_test_x, SumSeq(pde_num_bcs))

\* the triple a complete run stores in self.test_x
test_x_new(func_feats) ==
    IF num_test = None
    THEN test_alias
    ELSE LET func_vals == EvalBatch(func_feats, eval_pts)
             bc == train_x_bc
         IN  IF pde_pde
             THEN LET p == gen_inputs(func_feats, func_vals, test_points)
                  IN  << VStack(<<bc[1], p[1]>>), VStack(<<bc[2], p[2]>>),
                         VStack(<<bc[3], p[3]>>) >>
             ELSE bc

\* random, eval_batch at the evaluation points, eval_batch in gen_inputs
test_sampler_calls ==
    IF num_test = None THEN 0 ELSE 2 + (IF pde_pde THEN 1 ELSE 0)

\* the batches random(self.num_test) can return
test_batches == IF num_test = None THEN {<< >>} ELSE Random(num_test[1])

test_skip ==
    /\ ~test_gate
    /\ UNCHANGED <<config, cache>>
    /\ call' = CallRec("test", << >>, <<test_x, test_y>>, FALSE, 0, 0, TRUE)

test(func_feats, fail) ==
    /\ test_gate
    /\ UNCHANGED config
    /\ UNCHANGED <<train_x_bc, train_x, train_y>>
    /\ test_x' = IF fail = 0 THEN test_x_new(func_feats) ELSE test_x
    /\ test_y' = IF fail = 0 THEN None ELSE test_y
    /\ call' = IF fail = 0
               THEN CallRec("test", << >>, <<test_x', test_y'>>, FALSE,
                            test_sampler_calls, 0, FALSE)
               ELSE CallRec("test", << >>, None, TRUE, fail, 0, FALSE)

-----------------------------------------------------------------------------
(* The owner empties a slot to have it recomputed by the next call *)

reset_train ==
    /\ train_x' = None
    /\ train_y' = None
    /\ call' = CallRec("reset_train", << >>, None, FALSE, 0, 0, FALSE)
    /\ UNCHANGED <<config, train_x_bc, test_x, test_y>>

reset_test ==
    /\ test_x' = None
    /\ test_y' = None
    /\ call' = CallRec("reset_test", << >>, None, FALSE, 0, 0, FALSE)
    /\ UNCHANGED <<config, train_x_bc, train_x, train_y>>

-----------------------------------------------------------------------------
(* PDEOperator.losses *)

\* What pde.pde returns on R rows of input: a single array, or a list of
\* arrays, one per equation component.  Entry k of component e is the
\* residual of that component at row k (0-based) of the network input.
residual_array(e, R) ==
    [ncol |-> 1, rows |-> [k \in 1..R |-> <<[comp |-> e, row |-> k - 1]>>]]

pde_result(shape, R) ==
    IF shape = None
    THEN [is_list |-> FALSE, val |-> residual_array(0, R)]
    ELSE [is_list |-> TRUE,
          val |-> [e \in 1..shape[1] |-> residual_array(e - 1, R)]]

\* loss(zeros_like(error), error): the scalar, known by what it reduces
loss_fn(error) == [reduced |-> error]

\* bc.error(X, inputs, outputs, beg, end, aux_var) of condition i
bc_error(i, beg, end) == [bc |-> i, beg |-> beg, end |-> end]

\* bcs_start = np.cumsum([0] + self.num_bcs)
losses_bcs_start_raw == CumSum(pde_num_bcs)

losses_bcs_start == CumSum(num_bcs)

\* the losses of the PDE residual components
losses_pde_whole(f) == [e \in 1..Len(f) |-> loss_fn(f[e])]

losses_pde(f) ==
    [e \in 1..Len(f) |->
       loss_fn(ArrFrom(f[e], losses_bcs_start[Len(losses_bcs_start)]))]

\* the losses of the conditions, in the order of the loop
losses_bcs ==
    [k \in 1..Len(pde_bcs) |->
       loss_fn(bc_error(pde_bcs[k], losses_bcs_start[k], losses_bcs_start[k + 1]))]

\* the list the method returns
losses_list_bcs_first(f) == losses_bcs \o losses_pde(f)

losses_list(f) == losses_pde(f) \o losses_bcs

\* inputs is model.net.inputs, the triple the network was fed with; shape is
\* the shape of what pde.pde returns.  The loop body subscripts self.train_x,
\* which raises a TypeError if the train slot is empty.
losses(inputs, shape) ==
    LET res == pde_result(shape, NRows(inputs[2]))
        f == IF pde_pde
             THEN IF res.is_list THEN res.val ELSE <<res.val>>
             ELSE << >>
    IN  /\ UNCHANGED <<config, cache>>
        /\ call' = IF pde_bcs # << >> /\ train_x = None
                   THEN CallRec("losses", <<NRows(inputs[2]), shape>>, None, TRUE,
                                0, 0, FALSE)
                   ELSE CallRec("losses", <<NRows(inputs[2]), shape>>,
                                losses_list(f), FALSE, 0, 0, FALSE)

-----------------------------------------------------------------------------
(* PDEOperator.__init__ *)

range(n) == [k \in 1..n |-> k - 1]

\* the lists of raw point counts: for every number of conditions, the counts
\* descending from MaxBcPts and the counts ascending from 1
BcCounts ==
    UNION {{[k \in 1..c |-> MaxBcPts - ((k - 1) % MaxBcPts)],
            [k \in 1..c |-> ((k - 1) % MaxBcPts) + 1]} : c \in 0..MaxBcs}

\* the object after __init__(pde, function_space, evaluation_points,
\* num_function, function_variables, num_test) has returned: the fields are
\* set, then train_next_batch() and test() have run
Constructed(nb, pp, nf, function_variables, nt) ==
    /\ pde_num_bcs = nb
    /\ pde_pde = pp
    /\ num_func = nf
    /\ func_vars = IF function_variables # None
                   THEN function_variables ELSE range(Dim)
    /\ num_test = nt
    /\ num_bcs = [k \in 1..Len(nb) |-> nb[k] * nf]
    /\ \E ff \in Random(nf) :
         /\ train_x_bc = bc_inputs(ff, EvalBatch(ff, eval_pts))
         /\ train_x = train_x_new(ff)
         /\ train_y = None
    /\ \E tf \in test_batches :
         /\ test_x = test_x_new(tf)
         /\ test_y = None
         /\ call = CallRec("test", << >>, <<test_x, test_y>>, FALSE,
                           test_sampler_calls, 0, FALSE)

\* num_test is None or a size other than num_function
Init ==
    \E nb \in BcCounts, pp \in BOOLEAN, function_variables \in {None, <<0>>},
       nt \in {None, <<MaxFunc - 1>>} :
      Constructed(nb, pp, MaxFunc, function_variables, nt)

BatchSizes == {None, <<1>>}

TrainNextBatch ==
    \E batch_size \in BatchSizes :
      \/ train_next_batch_skip(batch_size)
      \/ \E fail \in 0..train_sampler_calls :
           \E ff \in IF fail = 1 THEN {None} ELSE Random(num_func) :
             train_next_batch(batch_size, ff, fail)

Test ==
    \/ test_skip
    \/ \E fail \in 0..test_sampler_calls :
         \E tf \in IF fail = 1 THEN {None} ELSE test_batches : test(tf, fail)

ResetTrain == reset_train

ResetTest == reset_test

ResidualShapes == {None} \cup {<<e>> : e \in 0..MaxComp}

Losses ==
    \E inputs \in {train_x, test_x} \ {None},
       shape \in IF pde_pde THEN ResidualShapes ELSE {None} :
      losses(inputs, shape)

Next == TrainNextBatch \/ Test \/ ResetTrain \/ ResetTest \/ Losses

Spec == Init /\ [][Next]_vars

-----------------------------------------------------------------------------
(* gen_inputs called on its own, with any batch of functions and any points *)

GenPoints == {[k \in 1..m |-> Coord(tag, k)] : m \in 0..MaxGenPts, tag \in 1..2}

GenFeats == UNION {Random(n) : n \in 0..MaxFunc}

GenInputsCall ==
    \E func_feats \in GenFeats, pts \in GenPoints :
      LET points == [ncol |-> Dim, rows |-> pts]
          func_vals == EvalBatch(func_feats, eval_pts)
      IN  /\ call' = CallRec("gen_inputs", <<func_feats, func_vals, points>>,
                             gen_inputs(func_feats, func_vals, points),
                             FALSE, 1, 0, FALSE)
          /\ UNCHANGED <<config, cache>>

InitGen ==
    \E nf \in 1..MaxFunc, function_variables \in {None, <<0>>},
       nt \in {None, <<MaxFunc>>} :
      Constructed(<< >>, FALSE, nf, function_variables, nt)

SpecGen == InitGen /\ [][GenInputsCall]_vars

-----------------------------------------------------------------------------
(* Properties *)

TrainPopulated == train_x # None \/ train_y # None

TestPopulated == test_x # None \/ test_y # None

NumConditions == Len(pde_num_bcs)

\* 0-based first row of condition i (0-based) when every raw count is scaled
\* by the size of the function batch; ScaledStart(NumConditions) is the total
ScaledStart(i) == num_func * SumSeq(SubSeq(pde_num_bcs, 1, i))

RawStart(i) == SumSeq(SubSeq(pde_num_bcs, 1, i))

\* the triple t restricted to the 0-based rows beg..end-1, and from row beg on
TripleSlice(t, beg, end) == [j \in 1..3 |-> ArrSlice(t[j], beg, end)]

TripleFrom(t, beg) == [j \in 1..3 |-> ArrFrom(t[j], beg)]

\* the coordinate vector pt restricted to the function-variable indices
Projected(pt) == [j \in 1..Len(func_vars) |-> pt[func_vars[j] + 1]]

\* C1: a call of train_next_batch() or test() on a populated slot calls no
\* sampler, leaves all five cached attributes as they are and returns the
\* cached pair; a populated slot changes only by the owner emptying it; the
\* constructor leaves both slots populated.
C1_SkipIfCached ==
    /\ TrainPopulated /\ TestPopulated
    /\ [][/\ (call'.op = "train_next_batch" /\ TrainPopulated)
               => /\ UNCHANGED cache
                  /\ call'.sampler = 0
                  /\ ~call'.raised
                  /\ call'.ret = <<train_x, train_y>>
          /\ (call'.op = "test" /\ TestPopulated)
               => /\ UNCHANGED cache
                  /\ call'.sampler = 0
                  /\ ~call'.raised
                  /\ call'.ret = <<test_x, test_y>>
          /\ (TrainPopulated /\ <<train_x, train_y>>' # <<train_x, train_y>>)
               => call'.op = "reset_train" /\ ~TrainPopulated'
          /\ (TestPopulated /\ <<test_x, test_y>>' # <<test_x, test_y>>)
               => call'.op = "reset_test" /\ ~TestPopulated'
         ]_vars

\* both methods have been called on populated slots: test() was skipped last,
\* on a train slot that had been emptied and refilled
C1_Witness ==
    /\ call.op = "test" /\ call.skipped
    /\ TrainPopulated
    /\ test_x # None /\ test_x # train_x /\ num_test = None

\* C2 as claimed: with num_test None, whatever test() returns is the current
\* train_x, with test_y absent.
C2_Original ==
    (num_test = None /\ call.op = "test" /\ ~call.raised)
        => call.ret = <<train_x, None>>

\* C2: with num_test None, a call of test() on an empty test slot stores and
\* returns the current train_x, with test_y absent.
C2_AliasWhenEmpty ==
    (num_test = None /\ call.op = "test" /\ ~call.raised /\ ~call.skipped)
        => /\ call.ret = <<train_x, None>>
           /\ test_x = train_x
           /\ test_y = None
           /\ call.sampler = 0

C2_Witness ==
    /\ num_test = None /\ call.op = "test" /\ ~call.skipped
    /\ test_x = train_x /\ train_x # None /\ pde_pde /\ NumConditions = 2

\* C3: gen_inputs on N functions and M points returns three arrays of N*M rows
\* and widths P, D and 1, and for row k = n*M + m, v[k] is func_vals[n], x[k]
\* is points[m] and vx[k] is function n at points[m] restricted to func_vars.
C3_RowAlignment ==
    (call.op = "gen_inputs") =>
        LET func_feats == call.args[1]
            func_vals == call.args[2]
            points == call.args[3]
            N == Len(func_feats)
            M == NRows(points)
            v == call.ret[1]
            x == call.ret[2]
            vx == call.ret[3]
        IN  /\ NRows(v) = N * M /\ NRows(x) = N * M /\ NRows(vx) = N * M
            /\ v.ncol = NumEvalPts /\ x.ncol = Dim /\ vx.ncol = 1
            /\ \A n \in 0..(N - 1), m \in 0..(M - 1) :
                 LET k == n * M + m
                 IN  /\ v.rows[k + 1] = func_vals.rows[n + 1]
                     /\ Len(v.rows[k + 1]) = NumEvalPts
                     /\ x.rows[k + 1] = points.rows[m + 1]
                     /\ vx.rows[k + 1] =
                          << FuncValue(func_feats[n + 1],
                                       Projected(points.rows[m + 1])) >>

C3_Witness ==
    /\ call.op = "gen_inputs"
    /\ Len(call.args[1]) >= 2 /\ NRows(call.args[3]) >= 2
    /\ call.args[1][1] # call.args[1][2]
    /\ Len(func_vars) < Dim

\* C4: the scaled counts are the raw counts times num_func; rows
\* [cum[i], cum[i+1]) of train_x_bc are the gen_inputs output, for one batch
\* of functions, of the point slice of condition i; the points of condition i
\* occur in no other rows; the scaled counts add up to the rows of train_x_bc.
C4_ConditionRanges ==
    /\ num_bcs = [k \in 1..NumConditions |-> pde_num_bcs[k] * num_func]
    /\ \A j \in 1..3 : NRows(train_x_bc[j]) = SumSeq(num_bcs)
    /\ \E ff \in Random(num_func) :
         \A i \in 0..(NumConditions - 1) :
           LET cum == CumSum(num_bcs)
               pts == ArrSlice(pde_train_x_bc, RawStart(i), RawStart(i + 1))
           IN  /\ cum[i + 1] = ScaledStart(i) /\ cum[i + 2] = ScaledStart(i + 1)
               /\ TripleSlice(train_x_bc, cum[i + 1], cum[i + 2])
                    = gen_inputs(ff, EvalBatch(ff, eval_pts), pts)
               /\ {k \in 0..(SumSeq(num_bcs) - 1) :
                     \E m \in 1..NRows(pts) : train_x_bc[2].rows[k + 1] = pts.rows[m]}
                    = cum[i + 1]..(cum[i + 2] - 1)

C4_Witness ==
    /\ NumConditions = 2 /\ pde_num_bcs[1] # pde_num_bcs[2]
    /\ call.op = "train_next_batch" /\ ~call.skipped /\ ~call.raised

\* C5: while train_x is populated its leading rows are the current train_x_bc
\* and its other rows, present only with a PDE residual, are the gen_inputs
\* output over the interior points; train_y is always absent.
C5_TrainOrdering ==
    /\ train_y = None
    /\ train_x # None =>
         LET nbc == SumSeq(num_bcs)
         IN  /\ TripleSlice(train_x, 0, nbc) = train_x_bc
             /\ IF pde_pde
                THEN \E ff \in Random(num_func) :
                       TripleFrom(train_x, nbc)
                         = gen_inputs(ff, EvalBatch(ff, eval_pts), pde_train_x_all)
                ELSE train_x = train_x_bc
             /\ \A j \in 1..3 :
                  NRows(train_x[j])
                    = nbc + (IF pde_pde THEN num_func * NumTrainAll ELSE 0)

C5_Witness ==
    /\ train_x # None /\ pde_pde /\ NumConditions = 2
    /\ call.op = "train_next_batch" /\ ~call.skipped /\ ~call.raised
    /\ test_x # None /\ TripleSlice(test_x, 0, SumSeq(num_bcs)) # train_x_bc

\* the number of residual components a call of losses with this shape has
Components(shape) ==
    IF ~pde_pde THEN 0 ELSE IF shape = None THEN 1 ELSE shape[1]

IsResidualLoss(l) == DOMAIN l.reduced = {"ncol", "rows"}

IsConditionLoss(l) == DOMAIN l.reduced = {"bc", "beg", "end"}

\* C6: in what losses() returns, every PDE loss reduces exactly the residual
\* rows sum(num_bcs).., and the loss of condition i is taken over (begin, end)
\* = (cum[i], cum[i+1]) of the scaled counts, the rows of train_x that hold
\* the points of condition i and no other rows.
C6_LossSlicing ==
    (call.op = "losses" /\ ~call.raised) =>
        LET R == call.args[1]
            E == Len(call.ret) - NumConditions
            total == ScaledStart(NumConditions)
        IN  /\ \A e \in 1..E :
                 LET rows == call.ret[e].reduced.rows
                 IN  /\ Len(rows) = R - total
                     /\ \A k \in 1..Len(rows) : rows[k][1].row = total + k - 1
            /\ \A i \in 0..(NumConditions - 1) :
                 LET err == call.ret[E + i + 1].reduced
                     pts == ArrSlice(pde_train_x_bc, RawStart(i), RawStart(i + 1))
                 IN  /\ err.bc = i
                     /\ err.beg = ScaledStart(i)
                     /\ err.end = ScaledStart(i + 1)
                     /\ {k \in 0..(NRows(train_x[2]) - 1) :
                           \E m \in 1..NRows(pts) :
                             train_x[2].rows[k + 1] = pts.rows[m]}
                          = err.beg..(err.end - 1)

C6_Witness ==
    /\ call.op = "losses" /\ ~call.raised
    /\ pde_pde /\ pde_num_bcs = <<MaxBcPts, MaxBcPts - 1>>
    /\ Len(call.ret) = 3
    /\ call.ret[3].reduced.beg = MaxBcPts * num_func
    /\ call.ret[3].reduced.end = (2 * MaxBcPts - 1) * num_func

\* C7: losses() returns E + C scalars, the E losses of the residual
\* components first, in component order, then one loss per condition in
\* declared order; E is 0 without a PDE residual and 1 for a single array.
C7_LossOrdering ==
    (call.op = "losses" /\ ~call.raised) =>
        LET E == Components(call.args[2])
            ret == call.ret
        IN  /\ Len(ret) = E + NumConditions
            /\ \A e \in 1..E :
                 /\ IsResidualLoss(ret[e])
                 /\ ret[e].reduced.rows # << >>
                 /\ \A k \in 1..Len(ret[e].reduced.rows) :
                      ret[e].reduced.rows[k][1].comp = e - 1
            /\ \A i \in 1..NumConditions :
                 /\ IsConditionLoss(ret[E + i])
                 /\ ret[E + i].reduced.bc = i - 1

C7_Witness ==
    /\ call.op = "losses" /\ ~call.raised
    /\ pde_pde /\ call.args[2] = <<2>> /\ NumConditions = 2
    /\ Len(call.ret) = 4

\* C8: a complete run of test() with num_test set stores a test_x made of the
\* current train_x_bc followed, with a PDE residual, by the gen_inputs output
\* of one batch of num_test functions over the rows of pde.test_x from
\* sum(pde.num_bcs) on; test_y is absent, and no call of test() changes
\* train_x_bc, train_x or train_y.
C8_TestWithTestSize ==
    /\ [](( num_test # None /\ call.op = "test"
            /\ ~call.skipped /\ ~call.raised) =>
            /\ test_y = None
            /\ call.ret = <<test_x, None>>
            /\ TripleSlice(test_x, 0, SumSeq(num_bcs)) = train_x_bc
            /\ IF pde_pde
               THEN \E tf \in Random(num_test[1]) :
                      /\ Len(tf) = num_test[1]
                      /\ TripleFrom(test_x, SumSeq(num_bcs))
                           = gen_inputs(tf, EvalBatch(tf, eval_pts),
                                        ArrFrom(pde_test_x, SumSeq(pde_num_bcs)))
               ELSE test_x = train_x_bc)
    /\ [][call'.op = "test" => UNCHANGED <<train_x_bc, train_x, train_y>>]_vars

\* test() has refilled the test slot after the train slot was refilled with
\* another batch
C8_Witness ==
    /\ num_test # None /\ call.op = "test" /\ ~call.skipped /\ ~call.raised
    /\ pde_pde /\ NumConditions = 2
    /\ train_x # None /\ test_x # None

\* C9: without conditions train_x_bc is three zero-row arrays of widths P, D
\* and 1, bc_inputs calls gen_inputs not once, train_x is the interior rows
\* alone, and the residual slice of losses() starts at row 0.
C9_NoConditions ==
    (pde_bcs = << >>) =>
        /\ \A j \in 1..3 : train_x_bc[j].rows = << >>
        /\ train_x_bc[1].ncol = NumEvalPts
        /\ train_x_bc[2].ncol = Dim
        /\ train_x_bc[3].ncol = 1
        /\ (call.op = "train_next_batch") => call.bc_gen = 0
        /\ (train_x # None) =>
             IF pde_pde
             THEN \E ff \in Random(num_func) :
                    train_x = gen_inputs(ff, EvalBatch(ff, eval_pts), pde_train_x_all)
             ELSE \A j \in 1..3 : train_x[j].rows = << >>
        /\ (call.op = "losses" /\ ~call.raised) =>
             \A e \in 1..Len(call.ret) :
               /\ Len(call.ret[e].reduced.rows) = call.args[1]
               /\ call.ret[e].reduced.rows[1][1].row = 0

C9_Witness ==
    /\ pde_bcs = << >> /\ pde_pde
    /\ call.op = "losses" /\ ~call.raised /\ Len(call.ret) = 2

\* C10 as claimed: a call of train_next_batch() or test() that raises leaves
\* all five cached attributes as they were.
C10_Original ==
    [][(call'.op \in {"train_next_batch", "test"} /\ call'.raised)
         => UNCHANGED cache]_vars

\* C10: a call of train_next_batch() or test() that raises returns nothing,
\* leaves train_x, train_y, test_x and test_y as they were, so that the slot
\* it was to fill is still empty, and leaves train_x_bc as it was unless it is
\* train_next_batch() raising in the sampler invocation of the interior rows,
\* after bc_inputs has stored the triple of the new batch.
C10_FailureKeepsSlots ==
    [][(call'.op \in {"train_next_batch", "test"} /\ call'.raised) =>
         /\ call'.ret = None
         /\ UNCHANGED <<train_x, train_y, test_x, test_y>>
         /\ call'.op = "train_next_batch" => ~TrainPopulated'
         /\ call'.op = "test" => ~TestPopulated' /\ UNCHANGED train_x_bc
         /\ (train_x_bc' # train_x_bc) =>
              /\ call'.op = "train_next_batch"
              /\ pde_pde
              /\ call'.sampler = 2 + NumConditions + 1
              /\ \E ff \in Random(num_func) :
                   train_x_bc' = bc_inputs(ff, EvalBatch(ff, eval_pts))
       ]_vars

\* train_next_batch() raised in the interior rows and left a train_x_bc that
\* is not the one the cached test_x was built on
C10_Witness ==
    /\ call.op = "train_next_batch" /\ call.raised
    /\ call.sampler = 2 + NumConditions + 1
    /\ NumConditions = 2 /\ pde_pde
    /\ train_x = None
    /\ test_x # None /\ TripleSlice(test_x, 0, SumSeq(num_bcs)) # train_x_bc

====
